---- MODULE Spec2Model ----
(***************************************************************************)
(* A model of the climate dashboard's app.js: the three series documents   *)
(* held in `state`, their concurrent fetch, the stat tiles written by      *)
(* updateStats, the chart options built by renderCO2Chart,                 *)
(* renderTemperatureChart and renderSeaIceChart, and the theme toggle.     *)
(*                                                                         *)
(* Numbers.  Metric values (ppm, degrees, million km^2) are integers in    *)
(* hundredths of the unit: 420.0 ppm is 42000, 4.6 is 460.  Sums and       *)
(* differences are exact on them; floating-point rounding is not modelled. *)
(* A quotient (the baseline mean) is an exact reduced fraction <<n, d>>.   *)
(*                                                                         *)
(* Optional values.  null / undefined is None == <<>>, a present value v   *)
(* is Some(v) == <<v>>.                                                    *)
(* The metric of an observation is a field of its record when it is a      *)
(* number; a null metric is named under the field "nulls", an absent one   *)
(* is no field at all.  The tiles compute on them as JavaScript does.      *)
(*                                                                         *)
(* Strings.  A JavaScript string is a sequence of one-character strings,   *)
(* so that String(year), the default (code unit) order of Array.sort and   *)
(* toFixed are computed, not assumed.                                      *)
(*                                                                         *)
(* Left out: the date and baseline labels of the tiles, the theme classes  *)
(* of the page, localStorage, the resize listener and the parts of the     *)
(* chart options that do not depend on the documents.                      *)
(***************************************************************************)
EXTENDS Integers, Sequences, FiniteSets, TLC

VARIABLES
    co2Data,          \* state.co2Data: None or Some(document)
    temperatureData,  \* state.temperatureData
    seaIceData,       \* state.seaIceData
    charts,           \* state.charts: indicator -> None or Some(chart options)
    apex,             \* the ApexCharts instances of each indicator: how many are
                      \* rendered and not destroyed, and whether one was destroyed
    isDarkMode,       \* state.isDarkMode
    pc,               \* where init() is: "start", "awaiting", "done"
    fetch,            \* the three fetchData promises: indicator -> [status, result]
    dom,              \* the page: stat tiles, chart containers, overlay, listener
    bl                \* one call of getMonthlyBaseline: its arguments and result

vars == <<co2Data, temperatureData, seaIceData, charts, apex, isDarkMode, pc, fetch, dom, bl>>

None == <<>>
Some(v) == <<v>>
IsSome(o) == o # <<>>
Val(o) == o[1]

Indicators == {"co2", "temperature", "seaIce"}

-----------------------------------------------------------------------------
(* Strings and numbers                                                     *)

DigitChars == <<"0", "1", "2", "3", "4", "5", "6", "7", "8", "9">>

\* The code unit order of the digit characters.
CharCodes == [c \in {DigitChars[i] : i \in 1..10} |-> CHOOSE i \in 0..9 : DigitChars[i + 1] = c]
CharCode(c) == CharCodes[c]

\* String(n), n a non-negative integer: property keys (dataByYear[d.year],
\* median[latestMonth.month]) and template strings.
RECURSIVE ToStr(_)
ToStr(n) ==
    IF n < 10 THEN <<DigitChars[n + 1]>>
    ELSE ToStr(n \div 10) \o <<DigitChars[(n % 10) + 1]>>

\* parseInt(s) of a string of digits.
RECURSIVE parseInt(_)
parseInt(s) ==
    IF Len(s) = 0 THEN 0
    ELSE 10 * parseInt(SubSeq(s, 1, Len(s) - 1)) + CharCode(s[Len(s)])

\* a < b in the order Array.prototype.sort() uses without a comparator:
\* code unit by code unit, a proper prefix first.
RECURSIVE StrLess(_, _)
StrLess(a, b) ==
    IF Len(b) = 0 THEN FALSE
    ELSE IF Len(a) = 0 THEN TRUE
    ELSE IF a[1] # b[1] THEN CharCode(a[1]) < CharCode(b[1])
    ELSE StrLess(Tail(a), Tail(b))

\* [...keys].sort(): the keys in ascending string order.
RECURSIVE SortStrings(_)
SortStrings(S) ==
    IF S = {} THEN <<>>
    ELSE LET m == CHOOSE x \in S : \A y \in S \ {x} : StrLess(x, y)
         IN  <<m>> \o SortStrings(S \ {m})

Reverse(s) == [i \in 1..Len(s) |-> s[Len(s) + 1 - i]]

\* s.slice(0, k)
SliceFront(s, k) == SubSeq(s, 1, IF Len(s) < k THEN Len(s) ELSE k)

\* s.slice(-k)
SliceBack(s, k) == SubSeq(s, IF Len(s) > k THEN Len(s) - k + 1 ELSE 1, Len(s))

Abs(x) == IF x < 0 THEN -x ELSE x

\* A JavaScript value that a metric of an observation can be: a number (in
\* hundredths), NaN, null or undefined.
JsNumber(v) == [type |-> "number", v |-> v]
JsNaN == [type |-> "NaN", v |-> 0]
JsNull == [type |-> "null", v |-> 0]
JsUndefined == [type |-> "undefined", v |-> 0]

\* d[key] of an observation.  A record of the model has the keys whose value
\* is a number; the keys whose value is null are listed under "nulls"; any
\* other key is absent.
Get(d, key) ==
    IF key \in DOMAIN d THEN JsNumber(d[key])
    ELSE IF "nulls" \in DOMAIN d /\ key \in d.nulls THEN JsNull
    ELSE JsUndefined

\* what a chart point or bucket slot holds of d[key]: the number, or nothing
Held(d, key) == IF key \in DOMAIN d THEN Some(d[key]) ELSE None

\* ToNumber: null is 0, undefined is NaN
ToNumber(x) ==
    IF x.type = "null" THEN JsNumber(0)
    ELSE IF x.type = "undefined" THEN JsNaN
    ELSE x

\* a - b
Minus(a, b) ==
    LET x == ToNumber(a)
        y == ToNumber(b)
    IN  IF x.type = "NaN" \/ y.type = "NaN" THEN JsNaN ELSE JsNumber(x.v - y.v)

\* x >= 0: the comparison converts with ToNumber and is false for NaN
AtLeastZero(x) == ToNumber(x).type = "number" /\ ToNumber(x).v >= 0

\* utils.formatNumber(num, 2): '--' when num == null (null or undefined),
\* else Number(num).toFixed(2), which is 'NaN' for NaN.
formatNumber(num) ==
    IF num.type \in {"null", "undefined"} THEN <<"-", "-">>
    ELSE IF num.type = "NaN" THEN <<"N", "a", "N">>
    ELSE LET v == num.v
             a == Abs(v)
         IN  (IF v < 0 THEN <<"-">> ELSE <<>>)
             \o ToStr(a \div 100) \o <<".">>
             \o <<DigitChars[((a % 100) \div 10) + 1], DigitChars[(a % 10) + 1]>>

\* (x >= 0 ? '+' : '') + utils.formatNumber(x, 2) for a JavaScript value x
Signed(x) == (IF AtLeastZero(x) THEN <<"+">> ELSE <<>>) \o formatNumber(x)

\* (x >= 0 ? '+' : '') + utils.formatNumber(x, 2) for a number x
SignedText(x) == Signed(JsNumber(x))

RECURSIVE GCD(_, _)
GCD(a, b) == IF b = 0 THEN a ELSE GCD(b, a % b)

\* sum / count, count > 0, as a reduced fraction <<numerator, denominator>>
Quot(sum, count) ==
    LET g == GCD(Abs(sum), count)
    IN  <<sum \div g, count \div g>>

-----------------------------------------------------------------------------
(* Program constants                                                       *)

\* new Array(12): the slots of a year bucket, a baseline and a median curve
MonthSlots == 12
\* .slice(0, 5): the years a chart shows
DisplayYears == 5
\* getMonthlyBaseline(state.co2Data.data, 1991, 2020)
BaselineStart == 1991
BaselineEnd == 2020
\* state.temperatureData.data.slice(-360)
TempWindow == 360
\* stroke.width and stroke.dashArray of a year series and of the reference series
YearWidth == 3
RefWidth == 2
YearDash == 0
RefDash == 5

Grey == "#9ca3af"
\* renderCO2Chart's colors: five year colors, strongest first, then the grey
Co2Colors == <<"#f97316", "#fb923c", "#fdba74", "#fed7aa", "#ffedd5", Grey>>
\* renderSeaIceChart's gradientColors, strongest first
gradientColors == <<"#06b6d4", "#22d3ee", "#67e8f9", "#a5f3fc", "#cffafe">>
Co2BaselineName == <<"1991-2020 Mittel">>
IceMedianName == <<"1981-2010 Median">>

Red == "text-climate-accent-red"
Teal == "text-climate-accent-teal"

\* new Array(12).fill(null)
EmptyBucket == [i \in 1..MonthSlots |-> None]

-----------------------------------------------------------------------------
(* getMonthlyBaseline                                                      *)

\* monthlySums and monthlyCounts after data.forEach has visited the first n
\* elements.  Slot m - 1 of the code is index m here.
RECURSIVE BaselineAcc(_, _, _, _)
BaselineAcc(data, startYear, endYear, n) ==
    IF n = 0
    THEN [sums |-> [i \in 1..MonthSlots |-> 0], counts |-> [i \in 1..MonthSlots |-> 0]]
    ELSE LET acc == BaselineAcc(data, startYear, endYear, n - 1)
             d == data[n]
         IN  IF d.year >= startYear /\ d.year <= endYear /\ d.month >= 1 /\ d.month <= 12
             THEN [sums |-> [acc.sums EXCEPT ![d.month] = @ + d.average],
                   counts |-> [acc.counts EXCEPT ![d.month] = @ + 1]]
             ELSE acc

\* As BaselineSums, with d.year > startYear for d.year >= startYear.
BaselineSumsExclusive(data, startYear, endYear) ==
    BaselineAcc(data, startYear + 1, endYear, Len(data))

\* monthlySums and monthlyCounts when data.forEach is over
BaselineSums(data, startYear, endYear) ==
    BaselineAcc(data, startYear, endYear, Len(data))

getMonthlyBaseline(data, startYear, endYear) ==
    LET acc == BaselineSums(data, startYear, endYear)
    IN  [i \in 1..MonthSlots |->
            IF acc.counts[i] > 0 THEN Some(Quot(acc.sums[i], acc.counts[i])) ELSE None]

-----------------------------------------------------------------------------
(* renderCO2Chart                                                          *)

\* dataByYear after state.co2Data.data.forEach has visited the first n
\* elements: a function from the year keys to 12-slot buckets.
RECURSIVE GroupByYear(_, _)
GroupByYear(data, n) ==
    IF n = 0 THEN <<>>
    ELSE LET acc == GroupByYear(data, n - 1)
             d == data[n]
             k == ToStr(d.year)
             withKey == IF k \in DOMAIN acc THEN acc ELSE acc @@ (k :> EmptyBucket)
         IN  IF d.month >= 1 /\ d.month <= 12
             THEN [withKey EXCEPT ![k][d.month] = Held(d, "average")]
             ELSE withKey

\* Object.keys(obj).sort().reverse().slice(0, 5)
LatestKeys(keys) == SliceFront(Reverse(SortStrings(keys)), DisplayYears)

\* stroke.width / stroke.dashArray: series.map((_, i) => i === last && hasRef ? ref : year)
StrokeOf(n, hasRef, ref, year) ==
    [i \in 1..n |-> IF i = n /\ hasRef THEN ref ELSE year]

\* The parts of opts that depend on the document: series, colors, stroke.
Co2ChartOpts(data) ==
    LET dataByYear == GroupByYear(data, Len(data))
        outputYears == LatestKeys(DOMAIN dataByYear)
        yearSeries == [i \in 1..Len(outputYears) |->
                          [name |-> outputYears[i], data |-> dataByYear[outputYears[i]]]]
        series == yearSeries \o
                  <<[name |-> Co2BaselineName,
                     data |-> getMonthlyBaseline(data, BaselineStart, BaselineEnd)]>>
    IN  [series |-> series,
         colors |-> SliceFront(Co2Colors, Len(series)),
         width |-> StrokeOf(Len(series), TRUE, RefWidth, YearWidth),
         dashArray |-> StrokeOf(Len(series), TRUE, RefDash, YearDash)]

-----------------------------------------------------------------------------
(* renderSeaIceChart                                                       *)

\* md after yd.forEach has visited the first n elements of one year's list
RECURSIVE FillMonths(_, _)
FillMonths(yd, n) ==
    IF n = 0 THEN EmptyBucket
    ELSE LET md == FillMonths(yd, n - 1)
             d == yd[n]
         IN  IF d.month >= 1 /\ d.month <= 12
             THEN [md EXCEPT ![d.month] = Held(d, "extent")]
             ELSE md

\* md after Object.keys(median).forEach: slot parseInt(m) - 1 takes median[m].
\* The keys of a median table are the decimal strings of distinct numbers,
\* so no two keys fill the same slot.
MedianCurve(median) ==
    [i \in 1..MonthSlots |->
        IF \E m \in DOMAIN median : parseInt(m) = i
        THEN Some(median[CHOOSE m \in DOMAIN median : parseInt(m) = i])
        ELSE None]

SeaIceChartOpts(doc) ==
    LET years == LatestKeys(DOMAIN doc.data)
        hasMedian == IsSome(doc.median)
        yearSeries == [i \in 1..Len(years) |->
                          [name |-> years[i],
                           data |-> FillMonths(doc.data[years[i]], Len(doc.data[years[i]]))]]
        series == IF hasMedian
                  THEN yearSeries \o
                       <<[name |-> IceMedianName, data |-> MedianCurve(Val(doc.median))]>>
                  ELSE yearSeries
    IN  [series |-> series,
         colors |-> SliceFront(gradientColors, Len(years))
                    \o (IF hasMedian THEN <<Grey>> ELSE <<>>),
         width |-> StrokeOf(Len(series), hasMedian, RefWidth, YearWidth),
         dashArray |-> StrokeOf(Len(series), hasMedian, RefDash, YearDash)]

-----------------------------------------------------------------------------
(* renderTemperatureChart                                                  *)

\* String(d.month).padStart(2, '0')
PadMonth(m) == IF Len(ToStr(m)) < 2 THEN <<"0">> \o ToStr(m) ELSE ToStr(m)

TemperatureChartOpts(data) ==
    LET shown == SliceBack(data, TempWindow)
    IN  [series |-> [i \in 1..Len(shown) |->
                        [x |-> ToStr(shown[i].year) \o <<"-">> \o PadMonth(shown[i].month),
                         y |-> Held(shown[i], "anomaly")]]]

-----------------------------------------------------------------------------
(* updateStats                                                             *)

\* data.find(pred) for the prior-year observation: the first element with
\* year = latest.year - 1 and the latest's month, or None.
FindPrevious(data, latest) ==
    LET hits == {i \in 1..Len(data) :
                    data[i].year = latest.year - 1 /\ data[i].month = latest.month}
    IN  IF hits = {} THEN None
        ELSE Some(data[CHOOSE i \in hits : \A j \in hits : i <= j])

\* const latestCO2 = data[data.length - 1]
LatestOf(data) == data[Len(data)]

\* the co2-kpi tile: text and class
Co2Kpi(data) ==
    LET latestCO2 == LatestOf(data)
        previousYearCO2 == FindPrevious(data, latestCO2)
        change == IF IsSome(previousYearCO2)
                  THEN Minus(Get(latestCO2, "average"), Get(Val(previousYearCO2), "average"))
                  ELSE JsNumber(0)
    IN  [text |-> Signed(change),
         class |-> IF AtLeastZero(change) THEN Red ELSE Teal]

\* the current-temp tile
TempKpi(data) == [text |-> Signed(Get(LatestOf(data), "anomaly"))]

\* median && median[latestMonth.month]: the entry, when it is truthy
MedianEntry(doc, month) ==
    IF IsSome(doc.median) /\ ToStr(month) \in DOMAIN Val(doc.median)
       /\ Val(doc.median)[ToStr(month)] # 0
    THEN Some(Val(doc.median)[ToStr(month)])
    ELSE None

\* the latest observation of the sea-ice document: the last element of the
\* list under the first key of Object.keys(data).sort().reverse(); None
\* when there is no key or the list is empty.
IceLatest(doc) ==
    LET years == Reverse(SortStrings(DOMAIN doc.data))
    IN  IF Len(years) = 0 THEN None
        ELSE LET latestYearData == doc.data[years[1]]
             IN  IF Len(latestYearData) = 0 THEN None
                 ELSE Some(latestYearData[Len(latestYearData)])

\* the ice-kpi tile for the latest observation
IceKpi(doc, latestMonth) ==
    LET entry == MedianEntry(doc, latestMonth.month)
        diff == IF IsSome(entry)
                THEN Minus(Get(latestMonth, "extent"), JsNumber(Val(entry)))
                ELSE JsNumber(0)
    IN  [text |-> Signed(diff),
         class |-> IF AtLeastZero(diff) THEN Teal ELSE Red]

-----------------------------------------------------------------------------
(* The page and the render functions                                       *)

\* What utils.showError writes into a chart container.
Co2Unavailable == "CO2-Daten nicht verfuegbar"
TempUnavailable == "Temperaturdaten nicht verfuegbar"
IceUnavailable == "Meereis-Daten nicht verfuegbar"
DataUnavailable == "Daten nicht verfuegbar"

\* The page before init: index.html's placeholders, no listener, the overlay up.
\* Every element app.js looks up by id is taken to be on the page.
InitialDom ==
    [co2Kpi |-> None, currentTemp |-> None, iceKpi |-> None, lastUpdated |-> None,
     chartEl |-> [i \in Indicators |-> "initial"],
     overlayHidden |-> FALSE, listener |-> FALSE]

\* !state.co2Data?.data?.length  and  !state.temperatureData?.data?.length
HasList(slot) == IsSome(slot) /\ Len(Val(slot).data) > 0

\* No chart has been made yet.
NoInstances == [i \in Indicators |-> [live |-> 0, destroyed |-> FALSE]]

\* As Destroy, with the call to destroy() left out.
DestroyNever(chart, inst) == inst

\* if (state.charts.co2) state.charts.co2.destroy()
Destroy(chart, inst) ==
    IF IsSome(chart) THEN [live |-> inst.live - 1, destroyed |-> TRUE] ELSE inst

\* state.charts.co2 = new ApexCharts(el, opts); state.charts.co2.render():
\* <<state.charts.co2, the indicator's instances>> afterwards
Replace(chart, inst, opts) ==
    <<Some(opts), [Destroy(chart, inst) EXCEPT !.live = @ + 1]>>

\* renderCO2Chart: <<state.charts.co2, the container's content, the
\* indicator's instances>> afterwards.  showError leaves state.charts alone.
renderCO2Chart(slot, chart, el, inst) ==
    IF ~HasList(slot) THEN <<chart, Co2Unavailable, inst>>
    ELSE LET made == Replace(chart, inst, Co2ChartOpts(Val(slot).data))
         IN  <<made[1], el, made[2]>>

renderTemperatureChart(slot, chart, el, inst) ==
    IF ~HasList(slot) THEN <<chart, TempUnavailable, inst>>
    ELSE LET made == Replace(chart, inst, TemperatureChartOpts(Val(slot).data))
         IN  <<made[1], el, made[2]>>

\* !state.seaIceData?.data: the data object is truthy even with no year in it
renderSeaIceChart(slot, chart, el, inst) ==
    IF ~IsSome(slot) THEN <<chart, IceUnavailable, inst>>
    ELSE LET made == Replace(chart, inst, SeaIceChartOpts(Val(slot)))
         IN  <<made[1], el, made[2]>>

\* renderAllCharts: [charts, chartEl, apex] afterwards
renderAllCharts(co2, temp, ice, ch, el, ap) ==
    LET a == renderCO2Chart(co2, ch["co2"], el["co2"], ap["co2"])
        b == renderTemperatureChart(temp, ch["temperature"], el["temperature"],
                                    ap["temperature"])
        c == renderSeaIceChart(ice, ch["seaIce"], el["seaIce"], ap["seaIce"])
    IN  [charts |-> [i \in Indicators |->
                        IF i = "co2" THEN a[1] ELSE IF i = "temperature" THEN b[1] ELSE c[1]],
         chartEl |-> [i \in Indicators |->
                        IF i = "co2" THEN a[2] ELSE IF i = "temperature" THEN b[2] ELSE c[2]],
         apex |-> [i \in Indicators |->
                        IF i = "co2" THEN a[3] ELSE IF i = "temperature" THEN b[3] ELSE c[3]]]

\* o?.last_updated of a state slot
LastUpdatedOf(slot) == IF IsSome(slot) THEN Val(slot).last_updated ELSE None

\* a || b || c on optional timestamps: the first that is there
FirstSome(a, b, c) == IF IsSome(a) THEN a ELSE IF IsSome(b) THEN b ELSE c

\* A timestamp is a number of seconds; the page shows day, month, year, hour
\* and minute of it.
SecondsPerMinute == 60

\* utils.formatDate: the timestamp to the minute, or the placeholder
formatDate(str) ==
    IF IsSome(str) THEN <<Val(str) \div SecondsPerMinute>> ELSE <<"-", "-">>

\* updateStats: the page afterwards.  A tile whose guard fails keeps its content.
updateStats(co2, temp, ice, d) ==
    LET latestIce == IF IsSome(ice) THEN IceLatest(Val(ice)) ELSE None
        upd == FirstSome(LastUpdatedOf(co2), LastUpdatedOf(temp), LastUpdatedOf(ice))
    IN  [d EXCEPT
            !.co2Kpi = IF HasList(co2) THEN Some(Co2Kpi(Val(co2).data)) ELSE @,
            !.currentTemp = IF HasList(temp) THEN Some(TempKpi(Val(temp).data)) ELSE @,
            !.iceKpi = IF IsSome(latestIce) THEN Some(IceKpi(Val(ice), Val(latestIce))) ELSE @,
            !.lastUpdated = IF IsSome(upd) THEN formatDate(upd) ELSE @]

\* the three utils.showError calls of init's else branch
ShowAllUnavailable(d) == [d EXCEPT !.chartEl = [i \in Indicators |-> DataUnavailable]]

\* As AnyLoaded, with && for ||.
AllLoaded(co2, temp, ice) == IsSome(co2) /\ IsSome(temp) /\ IsSome(ice)

\* return !!(co2 || temp || ice)
AnyLoaded(co2, temp, ice) == IsSome(co2) \/ IsSome(temp) \/ IsSome(ice)

-----------------------------------------------------------------------------
(* The state machine                                                       *)

NoBaselineCall == [called |-> FALSE, data |-> <<>>, startYear |-> 0, endYear |-> 0,
                   result |-> None]

\* The module's top level has run: `state` as declared, nothing fetched.
Init ==
    /\ co2Data = None
    /\ temperatureData = None
    /\ seaIceData = None
    /\ charts = [i \in Indicators |-> None]
    /\ apex = NoInstances
    /\ isDarkMode = TRUE
    /\ pc = "start"
    /\ fetch = [i \in Indicators |-> [status |-> "idle", result |-> None]]
    /\ dom = InitialDom
    /\ bl = NoBaselineCall

\* DOMContentLoaded: init runs to its await.  initThemeToggle takes the theme
\* from localStorage or the media query and registers the click listener;
\* loadAllData starts the three fetches.
InitStart ==
    /\ pc = "start"
    /\ \E dark \in BOOLEAN : isDarkMode' = dark
    /\ dom' = [dom EXCEPT !.listener = TRUE]
    /\ fetch' = [i \in Indicators |-> [status |-> "pending", result |-> None]]
    /\ pc' = "awaiting"
    /\ UNCHANGED <<co2Data, temperatureData, seaIceData, charts, apex, bl>>

\* fetchData(file) of indicator i settles with r: Some(document), or None
\* after a network error, a non-OK status or malformed JSON.  When it is the
\* last of the three, Promise.all resolves and, in the same turn of the event
\* loop, loadAllData stores the three results and init goes on to its end.
FetchSettle(i, r) ==
    /\ pc = "awaiting"
    /\ fetch[i].status = "pending"
    /\ LET f == [fetch EXCEPT ![i] = [status |-> "settled", result |-> r]]
           last == \A j \in Indicators : f[j].status = "settled"
           co2 == f["co2"].result
           temp == f["temperature"].result
           ice == f["seaIce"].result
           ok == AnyLoaded(co2, temp, ice)
           stats == updateStats(co2, temp, ice, dom)
           rendered == renderAllCharts(co2, temp, ice, charts, stats.chartEl, apex)
       IN  /\ fetch' = f
           /\ IF last
              THEN /\ co2Data' = co2
                   /\ temperatureData' = temp
                   /\ seaIceData' = ice
                   /\ charts' = IF ok THEN rendered.charts ELSE charts
                   /\ apex' = IF ok THEN rendered.apex ELSE apex
                   /\ dom' = IF ok
                             THEN [stats EXCEPT !.chartEl = rendered.chartEl,
                                                !.overlayHidden = TRUE]
                             ELSE [ShowAllUnavailable(dom) EXCEPT !.overlayHidden = TRUE]
                   /\ pc' = "done"
              ELSE UNCHANGED <<co2Data, temperatureData, seaIceData, charts, apex, dom, pc>>
    /\ UNCHANGED <<isDarkMode, bl>>

\* A click on the theme toggle: the listener flips the theme and re-renders
\* the three charts from whatever `state` holds.
ToggleClick ==
    /\ dom.listener
    /\ isDarkMode' = ~isDarkMode
    /\ LET rendered == renderAllCharts(co2Data, temperatureData, seaIceData,
                                       charts, dom.chartEl, apex)
       IN  /\ charts' = rendered.charts
           /\ apex' = rendered.apex
           /\ dom' = [dom EXCEPT !.chartEl = rendered.chartEl]
    /\ UNCHANGED <<co2Data, temperatureData, seaIceData, pc, fetch, bl>>

\* One call getMonthlyBaseline(data, startYear, endYear)
CallBaseline ==
    /\ ~bl.called
    /\ bl' = [bl EXCEPT !.called = TRUE,
                        !.result = Some(getMonthlyBaseline(bl.data, bl.startYear, bl.endYear))]
    /\ UNCHANGED <<co2Data, temperatureData, seaIceData, charts, apex, isDarkMode, pc, fetch, dom>>

-----------------------------------------------------------------------------
(* Inputs                                                                  *)

\* Bounds on the documents drawn
MaxTail == 2
MaxIceList == 2
MaxTempLen == 2
MaxBaselineLen == 2

SeqsUpTo(S, n) == UNION {[1..k -> S] : k \in 0..n}

\* Years of one, of the next and of the same number of digits, one of them
\* inside the 1991-2020 window, and more of them than a chart shows.
Years == {998, 999, 1000, 2020, 2023, 2024}
\* Months inside 1..12, on its edges and just outside
Co2Months == {0, 1, 6, 12, 13}
Co2Values == {41850, 42000}
Co2Obs == [year : Years, month : Co2Months, average : Co2Values]

\* Four yearly records, oldest first, as the fetcher writes them
Co2Archive ==
    [i \in 1..4 |-> [year |-> <<998, 999, 1000, 2020>>[i], month |-> 6, average |-> 41850]]

\* CO2 documents: nothing or the archive, then up to n observations of any
\* year, month and value in any order.
BroadCo2Docs(n) ==
    {[data |-> p \o t, last_updated |-> Some(1)] :
        p \in {<<>>, Co2Archive}, t \in SeqsUpTo(Co2Obs, n)}

TempObs == [year : {2023, 2024}, month : {1, 12}, anomaly : {-50, 0, 120}]

\* One observation short of a full chart window: the months from 1993-02 to
\* 2022-12, oldest first, as the fetcher writes them
TempArchive ==
    [i \in 1..(TempWindow - 1) |->
        [year |-> 1993 + (i \div 12), month |-> (i % 12) + 1, anomaly |-> (i % 7) * 10 - 20]]

\* Temperature documents: nothing or the archive, then up to n observations of
\* 2023 and 2024 in any order.
BroadTempDocs(n) ==
    {[data |-> p \o t, baseline |-> Some("1951-1980"), last_updated |-> Some(1)] :
        p \in {<<>>, TempArchive}, t \in SeqsUpTo(TempObs, n)}

IceObs == [month : {9, 12, 13}, extent : {420, 460}]
IceDefaultList == <<[month |-> 1, extent |-> 460]>>
\* Median tables: none, an empty one, and entries for month 9 (one of them
\* zero) and for the key "13", which is no month.
IceMedians ==
    {None, Some(<<>>), Some(ToStr(9) :> 460), Some(ToStr(9) :> 0),
     Some((ToStr(9) :> 460) @@ (ToStr(13) :> 420))}

\* Sea-ice documents: any set of year keys; one year holds any list of up to
\* n observations, the others one January record.
BroadIceDocs(n) ==
    {[data |-> [k \in {ToStr(y) : y \in S} |-> IF k = ToStr(f) THEN l ELSE IceDefaultList],
      median |-> m, last_updated |-> Some(1)] :
        <<S, f>> \in {<<T, y>> \in (SUBSET Years) \X Years : y \in T \/ (T = {} /\ y = 998)},
        l \in SeqsUpTo(IceObs, n), m \in IceMedians}

\* What fetchData can settle with, for the broad documents
BroadResults(i) ==
    IF i = "co2" THEN {Some(d) : d \in BroadCo2Docs(MaxTail)}
    ELSE IF i = "temperature" THEN {Some(d) : d \in BroadTempDocs(MaxTempLen)}
    ELSE {Some(d) : d \in BroadIceDocs(MaxIceList)}

\* A few whole documents for the runs of the full life cycle: one with data
\* and one without for each indicator.
SampleCo2Docs ==
    {[data |-> <<[year |-> 2023, month |-> 6, average |-> 41850],
                 [year |-> 2024, month |-> 6, average |-> 42000]>>,
      last_updated |-> Some(150)],
     [data |-> <<>>, last_updated |-> None]}
SampleTempDocs ==
    {[data |-> <<[year |-> 2024, month |-> 6, anomaly |-> 120]>>,
      baseline |-> Some("1951-1980"), last_updated |-> Some(200)],
     [data |-> <<>>, baseline |-> None, last_updated |-> Some(70)]}
SampleIceDocs ==
    {[data |-> (ToStr(2024) :> <<[month |-> 9, extent |-> 420]>>),
      median |-> Some(ToStr(9) :> 460), last_updated |-> Some(70)],
     [data |-> <<>>, median |-> None, last_updated |-> None]}

\* What fetchData can settle with: a failure, or a document
SampleResults(i) ==
    {None} \cup
    (IF i = "co2" THEN {Some(d) : d \in SampleCo2Docs}
     ELSE IF i = "temperature" THEN {Some(d) : d \in SampleTempDocs}
     ELSE {Some(d) : d \in SampleIceDocs})

\* Observations whose metric is a number, null, or not there at all.  Their
\* years lie after the baseline window, whose sums read no metric of them.
MaxGapLen == 2
GapCo2Obs ==
    [year : {2023, 2024}, month : {6}, average : Co2Values]
    \cup [year : {2023, 2024}, month : {6}, nulls : {{"average"}}]
    \cup [year : {2023, 2024}, month : {6}]
GapTempObs ==
    [year : {2024}, month : {5, 6}, anomaly : {-50, 0, 120}]
    \cup [year : {2024}, month : {5, 6}, nulls : {{"anomaly"}}]
    \cup [year : {2024}, month : {5, 6}]
GapIceObs ==
    [month : {9}, extent : {420, 460}]
    \cup [month : {9}, nulls : {{"extent"}}]
    \cup [month : {9}]

\* What fetchData can settle with, for documents of up to n such observations
GapResults(i, n) ==
    IF i = "co2"
    THEN {Some([data |-> t, last_updated |-> Some(1)]) : t \in SeqsUpTo(GapCo2Obs, n)}
    ELSE IF i = "temperature"
    THEN {Some([data |-> t, baseline |-> Some("1951-1980"), last_updated |-> Some(1)]) :
             t \in SeqsUpTo(GapTempObs, n)}
    ELSE {Some([data |-> (ToStr(2024) :> l), median |-> m, last_updated |-> Some(1)]) :
             l \in SeqsUpTo(GapIceObs, n), m \in {None, Some(ToStr(9) :> 460)}}

BaselineYears == {1990, 1991, 1992}
BaselineObs == [year : BaselineYears, month : {0, 1, 12, 13}, average : {0, 3}]

-----------------------------------------------------------------------------
(* Specifications                                                          *)

\* The life cycle of the page: init, the three fetches, theme clicks.
Next ==
    \/ InitStart
    \/ \E i \in Indicators : \E r \in SampleResults(i) : FetchSettle(i, r)
    \/ ToggleClick

Spec == Init /\ [][Next]_vars

\* The page with two fetches failed and the third, of indicator i, pending.
AwaitingOnly(i) ==
    /\ co2Data = None
    /\ temperatureData = None
    /\ seaIceData = None
    /\ charts = [j \in Indicators |-> None]
    /\ apex = NoInstances
    /\ isDarkMode = TRUE
    /\ pc = "awaiting"
    /\ fetch = [j \in Indicators |->
                  IF j = i THEN [status |-> "pending", result |-> None]
                  ELSE [status |-> "settled", result |-> None]]
    /\ dom = [InitialDom EXCEPT !.listener = TRUE]
    /\ bl = NoBaselineCall

InitDocs == \E i \in Indicators : AwaitingOnly(i)

\* The last fetch settles with any of the broad documents, and init runs to
\* its end on it.
NextDocs ==
    \E i \in Indicators :
        /\ fetch[i].status = "pending"
        /\ \E r \in BroadResults(i) : FetchSettle(i, r)

SpecDocs == InitDocs /\ [][NextDocs]_vars

\* The last fetch settles with a document whose observations may lack their
\* metric, and init runs to its end on it.
NextGaps ==
    \E i \in Indicators :
        /\ fetch[i].status = "pending"
        /\ \E r \in GapResults(i, MaxGapLen) : FetchSettle(i, r)

SpecGaps == InitDocs /\ [][NextGaps]_vars

\* getMonthlyBaseline on any data and any window
InitBaseline ==
    /\ co2Data = None
    /\ temperatureData = None
    /\ seaIceData = None
    /\ charts = [i \in Indicators |-> None]
    /\ apex = NoInstances
    /\ isDarkMode = TRUE
    /\ pc = "start"
    /\ fetch = [i \in Indicators |-> [status |-> "idle", result |-> None]]
    /\ dom = InitialDom
    /\ \E data \in SeqsUpTo(BaselineObs, MaxBaselineLen) :
       \E startYear \in BaselineYears : \E endYear \in BaselineYears :
          bl = [called |-> FALSE, data |-> data, startYear |-> startYear,
                endYear |-> endYear, result |-> None]

NextBaseline == CallBaseline

SpecBaseline == InitBaseline /\ [][NextBaseline]_vars

-----------------------------------------------------------------------------
(* Vocabulary of the properties                                            *)

Loaded == pc = "done"
Min(a, b) == IF a < b THEN a ELSE b
RemoveAt(s, i) == SubSeq(s, 1, i - 1) \o SubSeq(s, i + 1, Len(s))
InRange(m) == m >= 1 /\ m <= 12

\* Observation lists as the wire schema has them: months in 1..12, no two
\* observations of one year and month.
ValidCo2(data) ==
    /\ \A i \in 1..Len(data) : InRange(data[i].month)
    /\ \A i \in 1..Len(data) : \A j \in 1..Len(data) :
           (data[i].year = data[j].year /\ data[i].month = data[j].month) => i = j
ValidIce(doc) ==
    \A k \in DOMAIN doc.data :
        /\ \A i \in 1..Len(doc.data[k]) : InRange(doc.data[k][i].month)
        /\ \A i \in 1..Len(doc.data[k]) : \A j \in 1..Len(doc.data[k]) :
               doc.data[k][i].month = doc.data[k][j].month => i = j

\* The year series of a chart: its series without the reference series.
YearSeries(opts, hasRef) ==
    SubSeq(opts.series, 1, IF hasRef THEN Len(opts.series) - 1 ELSE Len(opts.series))

Co2Rendered == Loaded /\ HasList(co2Data) /\ IsSome(charts["co2"])
IceRendered == Loaded /\ IsSome(seaIceData) /\ IsSome(charts["seaIce"])
Co2Buckets == YearSeries(Val(charts["co2"]), TRUE)
IceBuckets == YearSeries(Val(charts["seaIce"]), IsSome(Val(seaIceData).median))

\* The years of the observations of a CO2 list, and of a sea-ice document
Co2YearsOf(data) == {data[i].year : i \in 1..Len(data)}
IceYearsOf(doc) == {parseInt(k) : k \in DOMAIN doc.data}

NumericallyDescending(ys) ==
    \A i \in 1..Len(ys) : \A j \in 1..Len(ys) :
        i < j => parseInt(ys[i].name) > parseInt(ys[j].name)

\* At most K buckets of 12 slots, most recent year first, no year twice,
\* and every year of the document when it has fewer than K.
BucketsAsSpecified(ys, years) ==
    /\ Len(ys) <= DisplayYears
    /\ \A i \in 1..Len(ys) : Len(ys[i].data) = MonthSlots
    /\ NumericallyDescending(ys)
    /\ Cardinality(years) < DisplayYears =>
          years = {parseInt(ys[i].name) : i \in 1..Len(ys)}

\* C1: the year bucketing of the CO2 chart and of the sea-ice chart yields at
\* most 5 buckets, each of 12 slots, in numerically descending year order with
\* no year twice, and all the years of a document that has fewer than 5.
C1_BucketsNumericallyDescending ==
    /\ (Co2Rendered /\ ValidCo2(Val(co2Data).data)) =>
           BucketsAsSpecified(Co2Buckets, Co2YearsOf(Val(co2Data).data))
    /\ (IceRendered /\ ValidIce(Val(seaIceData))) =>
           BucketsAsSpecified(IceBuckets, IceYearsOf(Val(seaIceData)))

\* The sea-ice document without observation i of the list under key k
IceWithout(doc, k, i) == [doc EXCEPT !.data[k] = RemoveAt(@, i)]

\* C2: an observation whose month is outside 1..12 is ignored by the year
\* bucketing: the year buckets are those of the document without it.
C2_OutOfRangeMonthIgnored ==
    /\ Co2Rendered =>
          LET data == Val(co2Data).data
          IN  \A i \in 1..Len(data) :
                  (~InRange(data[i].month) /\ Len(data) > 1) =>
                      Co2Buckets = YearSeries(Co2ChartOpts(RemoveAt(data, i)), TRUE)
    /\ IceRendered =>
          LET doc == Val(seaIceData)
          IN  \A k \in DOMAIN doc.data : \A i \in 1..Len(doc.data[k]) :
                  ~InRange(doc.data[k][i].month) =>
                      IceBuckets = YearSeries(SeaIceChartOpts(IceWithout(doc, k, i)),
                                              IsSome(doc.median))

\* The observations of a list that no other follows in time
ChronLatest(data) ==
    {i \in 1..Len(data) :
        \A j \in 1..Len(data) :
            \/ data[j].year < data[i].year
            \/ data[j].year = data[i].year /\ data[j].month <= data[i].month}

\* The observations of the year before d's, in d's month
PriorYear(data, d) ==
    {j \in 1..Len(data) : data[j].year = d.year - 1 /\ data[j].month = d.month}

\* The co2-kpi tile of a computed delta of exactly zero
Co2ZeroKpi == [text |-> SignedText(0), class |-> Red]

\* C3: when the CO2 document has no observation for (latestYear - 1,
\* latestMonth), the year-over-year tile is not the one of a computed delta
\* of zero: the delta is reported as unavailable, never defaulted to 0.
C3_NoPriorYearIsUnavailable ==
    (Loaded /\ HasList(co2Data) /\ ValidCo2(Val(co2Data).data)) =>
        LET data == Val(co2Data).data
        IN  (\A i \in ChronLatest(data) : PriorYear(data, data[i]) = {}) =>
                dom.co2Kpi # Some(Co2ZeroKpi)

\* C4: the year-over-year delta of the CO2 tile is the value of the
\* chronologically latest observation minus the value of the observation of the
\* same month one year before, in whatever order the observations are listed,
\* and a positive delta is classified unfavorable (red).
C4_DeltaOfChronologicallyLatest ==
    (Loaded /\ HasList(co2Data) /\ ValidCo2(Val(co2Data).data)) =>
        LET data == Val(co2Data).data
        IN  (\E i \in ChronLatest(data) : PriorYear(data, data[i]) # {}) =>
                \E i \in ChronLatest(data) : \E j \in PriorYear(data, data[i]) :
                    LET delta == data[i].average - data[j].average
                    IN  /\ IsSome(dom.co2Kpi)
                        /\ Val(dom.co2Kpi).text = SignedText(delta)
                        /\ delta > 0 => Val(dom.co2Kpi).class = Red

\* C5: the sea-ice tile shows (extent of the latest observation) minus
\* median[its month] whenever the median table has an entry for that month, an
\* entry of 0 included, red when negative and teal otherwise; without a table
\* or an entry the delta is unavailable: the tile shows no 0 and is not teal.
C5_IceDeltaAgainstMedian ==
    (Loaded /\ IsSome(seaIceData) /\ IsSome(IceLatest(Val(seaIceData)))) =>
        LET doc == Val(seaIceData)
            latest == Val(IceLatest(doc))
            key == ToStr(latest.month)
        IN  /\ IsSome(dom.iceKpi)
            /\ IF IsSome(doc.median) /\ key \in DOMAIN Val(doc.median)
               THEN LET diff == latest.extent - Val(doc.median)[key]
                    IN  Val(dom.iceKpi) = [text |-> SignedText(diff),
                                           class |-> IF diff < 0 THEN Red ELSE Teal]
               ELSE /\ Val(dom.iceKpi).text # SignedText(0)
                    /\ Val(dom.iceKpi).class # Teal

\* The indices of the observations of data inside the window, in month m
InWindow(data, startYear, endYear, m) ==
    {i \in 1..Len(data) :
        data[i].year >= startYear /\ data[i].year <= endYear /\ data[i].month = m}

RECURSIVE SumOf(_, _)
SumOf(data, I) ==
    IF I = {} THEN 0
    ELSE LET i == CHOOSE j \in I : TRUE
         IN  data[i].average + SumOf(data, I \ {i})

\* C6: getMonthlyBaseline returns 12 slots; slot m - 1 is absent (null, not 0)
\* when no observation of the window has month m, else the arithmetic mean of
\* exactly those observations, which is the value itself when there is one.
C6_BaselineIsWindowMean ==
    bl.called =>
        LET out == Val(bl.result)
        IN  /\ Len(out) = MonthSlots
            /\ \A m \in 1..MonthSlots :
                  LET I == InWindow(bl.data, bl.startYear, bl.endYear, m)
                  IN  /\ I = {} => out[m] = None
                      /\ I # {} => out[m] = Some(Quot(SumOf(bl.data, I), Cardinality(I)))
                      /\ Cardinality(I) = 1 =>
                            \A i \in I : out[m] = Some(<<bl.data[i].average, 1>>)

\* A call whose window holds two observations of December, of values 0 and
\* 3, and none of January: slot 11 is their mean 3/2, slot 0 is absent.
C6_Witness ==
    /\ bl.called
    /\ Cardinality(InWindow(bl.data, bl.startYear, bl.endYear, 12)) = 2
    /\ Val(bl.result)[12] = Some(<<3, 2>>)
    /\ Val(bl.result)[1] = None

\* The last series of a chart is its reference series.
ReferenceLast(opts, name) ==
    Len(opts.series) > 0 /\ opts.series[Len(opts.series)].name = name

\* C7: in the series of the CO2 chart and of the sea-ice chart the year series
\* come most recent year first, in strictly descending year order, and the
\* reference series is last, in whatever order the input lists its
\* observations and year keys.
C7_SeriesOrder ==
    /\ (Co2Rendered /\ ValidCo2(Val(co2Data).data)) =>
           /\ NumericallyDescending(Co2Buckets)
           /\ ReferenceLast(Val(charts["co2"]), Co2BaselineName)
    /\ (IceRendered /\ ValidIce(Val(seaIceData)) /\ IsSome(Val(seaIceData).median)) =>
           /\ NumericallyDescending(IceBuckets)
           /\ ReferenceLast(Val(charts["seaIce"]), IceMedianName)

\* The style hints of a chart of n year series and a reference series: the
\* year series solid, of the year width, in the palette's order; the
\* reference series, and only it, thinner, dashed and grey.
StyledAsSpecified(opts, palette) ==
    LET n == Len(opts.series) - 1
    IN  /\ Len(opts.colors) = n + 1
        /\ Len(opts.width) = n + 1
        /\ Len(opts.dashArray) = n + 1
        /\ \A i \in 1..n :
              /\ opts.colors[i] = palette[i]
              /\ opts.colors[i] # Grey
              /\ opts.width[i] = YearWidth
              /\ opts.dashArray[i] = YearDash
        /\ opts.colors[n + 1] = Grey
        /\ opts.width[n + 1] = RefWidth
        /\ RefWidth < YearWidth
        /\ opts.dashArray[n + 1] = RefDash
        /\ RefDash > 0

\* C8: for 1 to 5 displayed years, the style hints of the CO2 chart and of
\* the sea-ice chart make the reference series, and only it, thinner, dashed
\* and grey, and every year series solid with the year palette in order.
C8_ReferenceStyle ==
    /\ (Co2Rendered /\ ValidCo2(Val(co2Data).data)) =>
           StyledAsSpecified(Val(charts["co2"]), Co2Colors)
    /\ (IceRendered /\ ValidIce(Val(seaIceData)) /\ IsSome(Val(seaIceData).median)
        /\ DOMAIN Val(seaIceData).data # {}) =>
           StyledAsSpecified(Val(charts["seaIce"]), gradientColors)

\* C9: the chart computation never runs before the three fetches have settled
\* and their results are stored in state: a theme click, which re-renders the
\* three charts, is taken only then.
C9_RenderOnlyAfterLoad ==
    [][ToggleClick => (Loaded /\ \A i \in Indicators : fetch[i].status = "settled")]_vars

\* An indicator's document is loaded with data, or it is missing.
WithData(i) ==
    IF i = "co2" THEN HasList(co2Data)
    ELSE IF i = "temperature" THEN HasList(temperatureData)
    ELSE IsSome(seaIceData) /\ IsSome(IceLatest(Val(seaIceData)))
Missing(i) ==
    IF i = "co2" THEN ~IsSome(co2Data)
    ELSE IF i = "temperature" THEN ~IsSome(temperatureData)
    ELSE ~IsSome(seaIceData)
Tile(i) ==
    IF i = "co2" THEN dom.co2Kpi
    ELSE IF i = "temperature" THEN dom.currentTemp
    ELSE dom.iceKpi

\* C10: whichever of the three documents load or fail, init completes and
\* each indicator is handled on its own: one whose document loaded with data
\* has its stat tile written and its chart rendered, one whose document is
\* missing has the 'not available' message in its chart container and no chart.
C10_IndicatorsIndependent ==
    /\ (\A i \in Indicators : fetch[i].status = "settled") => Loaded
    /\ Loaded =>
          /\ dom.overlayHidden
          /\ \A i \in Indicators :
                /\ WithData(i) => (IsSome(Tile(i)) /\ IsSome(charts[i]))
                /\ Missing(i) =>
                      /\ dom.chartEl[i] \in {Co2Unavailable, TempUnavailable,
                                             IceUnavailable, DataUnavailable}
                      /\ ~IsSome(charts[i])
                      /\ ~IsSome(Tile(i))

\* Init is over with the CO2 document loaded and the two others failed.
C10_Witness ==
    /\ Loaded
    /\ WithData("co2") /\ Missing("temperature") /\ Missing("seaIce")
    /\ IsSome(dom.co2Kpi) /\ IsSome(charts["co2"])
    /\ dom.chartEl["temperature"] = TempUnavailable
    /\ dom.chartEl["seaIce"] = IceUnavailable

\* the last_updated timestamp of a state slot, as a set of at most one
StampOf(slot) == IF IsSome(LastUpdatedOf(slot)) THEN {Val(LastUpdatedOf(slot))} ELSE {}

\* the last_updated timestamps of the documents that are loaded and carry one
Timestamps == StampOf(co2Data) \cup StampOf(temperatureData) \cup StampOf(seaIceData)

Max(S) == CHOOSE x \in S : \A y \in S : y <= x

\* C11: once init has run with a document loaded, the freshness value on the
\* page is the latest of the last_updated timestamps the loaded documents carry.
C11_FreshnessIsMaximum ==
    (Loaded /\ Timestamps # {}) => dom.lastUpdated = formatDate(Some(Max(Timestamps)))

\* digits, a point, two digits
FixedPrecision(t) ==
    /\ Len(t) >= 4
    /\ t[Len(t) - 2] = "."
    /\ \A i \in (1..Len(t)) \ {Len(t) - 2} : \E k \in 1..10 : t[i] = DigitChars[k]

\* a fixed-precision string with '+' in front of a value >= 0 and '-' in
\* front of one below
SignedFixed(t) == Len(t) >= 1 /\ t[1] \in {"+", "-"} /\ FixedPrecision(Tail(t))

Placeholder == <<"-", "-">>

\* every observation of the list carries the metric
AllCarry(list, metric) == \A i \in 1..Len(list) : metric \in DOMAIN list[i]

\* C12: once init has run, the text of each tile is the placeholder '--',
\* with no sign, when the latest observation has no value for the metric; where
\* every observation has one it is a signed fixed-precision string, for the
\* temperature tile that of the latest anomaly.
C12_SignedOrPlaceholder ==
    Loaded =>
        /\ HasList(co2Data) =>
              LET data == Val(co2Data).data
              IN  /\ "average" \notin DOMAIN LatestOf(data) =>
                        Val(dom.co2Kpi).text = Placeholder
                  /\ AllCarry(data, "average") => SignedFixed(Val(dom.co2Kpi).text)
        /\ HasList(temperatureData) =>
              LET latestTemp == LatestOf(Val(temperatureData).data)
              IN  Val(dom.currentTemp).text =
                      IF "anomaly" \in DOMAIN latestTemp
                      THEN SignedText(latestTemp.anomaly)
                      ELSE Placeholder
        /\ (IsSome(seaIceData) /\ IsSome(IceLatest(Val(seaIceData)))) =>
              LET latestMonth == Val(IceLatest(Val(seaIceData)))
              IN  /\ "extent" \notin DOMAIN latestMonth =>
                        Val(dom.iceKpi).text = Placeholder
                  /\ AllCarry(Val(seaIceData).data[ToStr(2024)], "extent") =>
                        SignedFixed(Val(dom.iceKpi).text)

\* the (year-month, anomaly) pair of an observation
PairOf(d) == [x |-> ToStr(d.year) \o <<"-">> \o PadMonth(d.month), y |-> Some(d.anomaly)]

\* year-month labels of four-digit years: a is not later than b
NotLater(a, b) == ~StrLess(b, a)

\* C13: once init has run on a temperature document of n observations, the
\* temperature chart holds min(360, n) (year-month, anomaly) pairs in
\* chronological order, each of them an observation of the document, and no
\* observation left out is later than one that is shown.
C13_LatestWindowChronological ==
    (Loaded /\ HasList(temperatureData)) =>
        LET data == Val(temperatureData).data
            series == Val(charts["temperature"]).series
            shown == {series[k] : k \in 1..Len(series)}
        IN  /\ Len(series) = Min(TempWindow, Len(data))
            /\ \A k \in 1..(Len(series) - 1) : NotLater(series[k].x, series[k + 1].x)
            /\ shown \subseteq {PairOf(data[i]) : i \in 1..Len(data)}
            /\ \A i \in 1..Len(data) :
                   PairOf(data[i]) \in shown \/ NotLater(PairOf(data[i]).x, series[1].x)

\* each indicator has one live chart instance when state.charts holds a chart
\* for it, and none otherwise
OneLivePerStoredChart ==
    \A i \in Indicators : apex[i].live = (IF IsSome(charts[i]) THEN 1 ELSE 0)

\* a chart that state.charts holds stays or is replaced by one with the same
\* series
SeriesKept ==
    \A i \in Indicators :
        IsSome(charts[i]) =>
            (IsSome(charts'[i]) /\ Val(charts'[i]).series = Val(charts[i]).series)

\* C14: through init and any theme clicks, each indicator has at most one live
\* chart instance, the one state.charts holds: a chart that is replaced has
\* been destroyed before the new one is made, and the new one carries the
\* same series.
C14_OneLiveChartSameSeries == []OneLivePerStoredChart /\ [][SeriesKept]_vars

\* All three charts have been replaced by a theme click after the load.
C14_Witness ==
    /\ Loaded
    /\ \A i \in Indicators :
           IsSome(charts[i]) /\ apex[i].destroyed /\ apex[i].live = 1

====
